---------------------------- MODULE Spec2Model ----------------------------
(***************************************************************************)
(* SimpleVector<Type> over ArrayPtr<Type> (simple_vector.h, array_ptr.h),  *)
(* instantiated with an arithmetic Type (int).                             *)
(*                                                                         *)
(* The heap is a finite set of blocks; a block is the array obtained from  *)
(* one new Type[n].  Two vector objects live side by side so that copy,    *)
(* move and swap have a second operand.  new Type[n] throws when the heap  *)
(* cannot hold n more cells, and may throw at any other time as well.      *)
(*                                                                         *)
(* An indexed access memory_[i] with i outside the allocated array is      *)
(* undefined behaviour: the access is recorded (field oob), the value read *)
(* there is indeterminate, a value written there is lost to the vectors.   *)
(* A cell that was never initialised holds the indeterminate value Indet,  *)
(* which equals no int: nothing can be said of what a read of it gives.    *)
(***************************************************************************)
EXTENDS Integers, Sequences, FiniteSets, TLC

\* ------------------------------------------------------------------ bounds
MaxLen == 3       \* largest size / capacity argument, largest number of elements pushed
MaxHeap == 6      \* cells the heap can hold at one time
MaxBlocks == 3    \* arrays that can be allocated at one time

Vecs == {"S", "T"}
NULL == 0
Blocks == 1..MaxBlocks

\* The element values.  No call inspects an element (ArrayPtr and SimpleVector
\* only copy, move and overwrite them), so two values of the caller's, x and
\* y, and the zero that value-initialisation and Resize store tell every
\* position of a vector apart.
Zero == "0"
Inputs == {"x", "y"}
Vals == Inputs \cup {Zero}
Indet == "?"                  \* the indeterminate value

VARIABLES
    vec,      \* vec[v]: the ArrayPtr array_ of vector v: memory_, size_, capacity_
    alive,    \* alive[v]: v is between its constructor and its destructor
    heap,     \* heap[b]: is block b allocated, and its cells
    last,     \* the call that produced this state, with what it saw and returned
    plog,     \* plog[v]: the values pushed, when v was default-constructed and has
              \*          only had PushBack calls since, all allocations succeeding
    mvd       \* the latest move T = move(S), the values pushed onto S since, and
              \* whether an allocation of one of these PushBack calls failed

vars == <<vec, alive, heap, last, plog, mvd>>

\* ------------------------------------------------------------- ArrayPtr state
\* array_ptr.h:11-21: the three fields, and the default constructor
EmptyArr == [memory |-> NULL, size |-> 0, capacity |-> 0]

FreeBlock == [used |-> FALSE, cells |-> <<>>]

\* pointers: Type* as block and offset
NullPtr == [blk |-> NULL, off |-> 0]

\* A computation in progress: the ArrayPtr a, the heap h, whether an access
\* fell outside the array (oob), and the outcome of operator new ("none" when
\* no allocation was attempted).
Mk(a, h) == [a |-> a, h |-> h, oob |-> FALSE, alloc |-> "none"]

\* number of cells of the array memory_ points to
BlockLen(a, h) == IF a.memory = NULL THEN 0 ELSE Len(h[a.memory].cells)

RECURSIVE SumLen(_, _)
SumLen(h, b) == IF b = 0 THEN 0 ELSE Len(h[b].cells) + SumLen(h, b - 1)

\* operator new[] for n cells succeeds only if a block and n cells are available
CanAlloc(h, n) ==
    /\ \E b \in Blocks : ~h[b].used
    /\ SumLen(h, MaxBlocks) + n <= MaxHeap

NewBlock(h) == CHOOSE b \in Blocks : ~h[b].used /\ \A c \in 1..(b - 1) : h[c].used

\* delete[] p
Delete(h, p) == IF p = NULL THEN h ELSE [h EXCEPT ![p] = FreeBlock]

\* array_ptr.h:89-91
SetSize(st, value) == [st EXCEPT !.a.size = value]

\* array_ptr.h:101-103: memory_[index], read
Get(st, index) ==
    IF index < BlockLen(st.a, st.h) THEN st.h[st.a.memory].cells[index + 1] ELSE Indet

\* the access memory_[index] is noted when it falls outside the array
Touch(st, index) == [st EXCEPT !.oob = @ \/ (index >= BlockLen(st.a, st.h))]

\* array_ptr.h:101-103: memory_[index] = x
Put(st, index, x) ==
    IF index < BlockLen(st.a, st.h)
    THEN [st EXCEPT !.h[st.a.memory].cells[index + 1] = x]
    ELSE [st EXCEPT !.oob = TRUE]

\* memory_[d] = memory_[s] (for int, std::move(memory_[s]) is a copy)
AssignElem(st, d, s) == Put(Touch(st, s), d, Get(st, s))


\* std::is_arithmetic<Type>::value for Type = int (array_ptr.h:133)
IsArithmetic == TRUE

\* Reserve with the std::copy stopping one element early
ReserveLosesLast(st, new_capacity, ok) ==
    IF new_capacity <= st.a.capacity THEN st
    ELSE IF ~(ok /\ CanAlloc(st.h, new_capacity)) THEN [st EXCEPT !.alloc = "fail"]
    ELSE LET new_memory == NewBlock(st.h)
             cells == [k \in 1..new_capacity |->
                          IF k < st.a.size THEN Get(st, k - 1) ELSE Zero]
             h1 == [st.h EXCEPT ![new_memory] = [used |-> TRUE, cells |-> cells]]
         IN  [a     |-> [memory |-> new_memory, size |-> st.a.size,
                         capacity |-> new_capacity],
              h     |-> Delete(h1, st.a.memory),
              oob   |-> st.oob,
              alloc |-> "ok"]

\* Reserve adopting the new capacity before new has returned
ReserveCommitsEarly(st, new_capacity, ok) ==
    IF new_capacity <= st.a.capacity THEN st
    ELSE IF ~(ok /\ CanAlloc(st.h, new_capacity))
    THEN [st EXCEPT !.alloc = "fail", !.a.capacity = new_capacity]
    ELSE LET new_memory == NewBlock(st.h)
             cells == [k \in 1..new_capacity |->
                          IF k <= st.a.size THEN Get(st, k - 1) ELSE Zero]
             h1 == [st.h EXCEPT ![new_memory] = [used |-> TRUE, cells |-> cells]]
         IN  [a     |-> [memory |-> new_memory, size |-> st.a.size,
                         capacity |-> new_capacity],
              h     |-> Delete(h1, st.a.memory),
              oob   |-> st.oob,
              alloc |-> "ok"]

\* array_ptr.h:142-161.  ok: operator new does not throw of its own accord.
Reserve(st, new_capacity, ok) ==
    IF new_capacity <= st.a.capacity THEN st
    ELSE IF ~(ok /\ CanAlloc(st.h, new_capacity))
    THEN \* new throws, new_memory is still nullptr, catch (...) swallows it
         [st EXCEPT !.alloc = "fail"]
    ELSE LET new_memory == NewBlock(st.h)
             \* new Type[new_capacity]() value-initialises, then std::copy of
             \* [memory_, memory_ + size_) to new_memory
             cells == [k \in 1..new_capacity |->
                          IF k <= st.a.size THEN Get(st, k - 1) ELSE Zero]
             h1 == [st.h EXCEPT ![new_memory] = [used |-> TRUE, cells |-> cells]]
         IN  [a     |-> [memory |-> new_memory, size |-> st.a.size,
                         capacity |-> new_capacity],
              h     |-> Delete(h1, st.a.memory),
              oob   |-> st.oob \/ st.a.size > BlockLen(st.a, st.h)
                               \/ st.a.size > new_capacity,
              alloc |-> "ok"]

\* array_ptr.h:134-136: for (i = old_size; i < new_size; ++i) memory_[i] = 0
RECURSIVE ZeroFill(_, _, _)
ZeroFill(st, i, new_size) ==
    IF i < new_size THEN ZeroFill(Put(st, i, Zero), i + 1, new_size) ELSE st

\* Resize without the loop that zeroes [old_size, new_size)
ResizeNoFill(st, new_size, ok) ==
    SetSize(Reserve(st, new_size, ok), new_size)

\* array_ptr.h:130-139
Resize(st, new_size, ok) ==
    LET old_size == st.a.size
        s1 == Reserve(st, new_size, ok)
        s2 == IF IsArithmetic THEN ZeroFill(s1, old_size, new_size) ELSE s1
    IN  SetSize(s2, new_size)

\* array_ptr.h:23-31: ArrayPtr(size)
ArrayPtrSized(h, size, ok) ==
    IF size > 0 THEN Resize(Mk(EmptyArr, h), size, ok) ELSE Mk(EmptyArr, h)

\* array_ptr.h:33-40: ArrayPtr(size, capacity)
ArrayPtrReserved(h, size, capacity, ok) ==
    SetSize(Resize(Mk(EmptyArr, h), capacity, ok), size)

\* array_ptr.h:42-49: the copy constructor.  new Type[n] leaves the ints
\* beyond size_ uninitialised; when new throws, the exception leaves the
\* constructor (alloc = "fail") and nothing was built.
ArrayPtrCopy(other, h, ok) ==
    IF ~(ok /\ CanAlloc(h, other.capacity))
    THEN [a |-> EmptyArr, h |-> h, oob |-> FALSE, alloc |-> "fail"]
    ELSE LET nb == NewBlock(h)
             cells == [k \in 1..other.capacity |->
                          IF k <= other.size THEN Get(Mk(other, h), k - 1) ELSE Indet]
         IN  [a     |-> [memory |-> nb, size |-> other.size, capacity |-> other.capacity],
              h     |-> [h EXCEPT ![nb] = [used |-> TRUE, cells |-> cells]],
              oob   |-> other.size > BlockLen(other, h) \/ other.size > other.capacity,
              alloc |-> "ok"]

\* ------------------------------------------------------------- SimpleVector
\* simple_vector.h:139-151
GetSize(a) == a.size
GetCapacity(a) == a.capacity
IsEmpty(a) == a.size = 0

\* simple_vector.h:193-225: nullptr for an empty vector
Begin(a) == IF IsEmpty(a) THEN NullPtr ELSE [blk |-> a.memory, off |-> 0]
End(a) == IF IsEmpty(a) THEN NullPtr ELSE [blk |-> a.memory, off |-> GetSize(a)]

\* std::distance(first, last) and std::next(it, n) on pointers
Distance(it_first, it_last) == it_last.off - it_first.off
NextPtr(it, n) == [it EXCEPT !.off = @ + n]

\* GrowIfNeed growing a full vector by one slot instead of doubling it
GrowByOne(st, ok) ==
    LET current_size == GetSize(st.a)
    IN  IF current_size = 0 THEN Resize(st, 1, ok)
        ELSE IF current_size >= GetCapacity(st.a)
             THEN Resize(st, GetCapacity(st.a) + 1, ok)
             ELSE st

\* simple_vector.h:228-235
GrowIfNeed(st, ok) ==
    LET current_size == GetSize(st.a)
    IN  IF current_size = 0 THEN Resize(st, 1, ok)
        ELSE IF current_size >= GetCapacity(st.a)
             THEN Resize(st, GetCapacity(st.a) * 2, ok)
             ELSE st

\* simple_vector.h:76-89 (both overloads: for int, std::move(item) is a copy)
PushBackOp(st, item, ok) ==
    LET old_size == GetSize(st.a)
        s1 == GrowIfNeed(st, ok)
        s2 == SetSize(s1, old_size + 1)
    IN  Put(s2, old_size, item)

\* std::copy(first, last, d_first) within one array, element by element from
\* the low index up
RECURSIVE CopyForward(_, _, _, _)
CopyForward(st, first, lst, d) ==
    IF first >= lst THEN st
    ELSE CopyForward(AssignElem(st, d, first), first + 1, lst, d + 1)

\* the same copy carried out as memmove (what the library does for int): when
\* the destination lies above the source the cells move from the high index down
RECURSIVE CopyBackward(_, _, _, _)
CopyBackward(st, first, lst, d) ==
    IF first >= lst THEN st
    ELSE CopyBackward(AssignElem(st, d + (lst - 1 - first), lst - 1), first, lst - 1, d)

\* std::copy on overlapping ranges with d_first inside [first, last) is
\* undefined: impl chooses between the two ways a build carries it out
StdCopy(st, first, lst, d, impl) ==
    IF impl = "memmove" /\ d > first THEN CopyBackward(st, first, lst, d)
    ELSE CopyForward(st, first, lst, d)

CopyImpls == {"forward", "memmove"}

\* simple_vector.h:95-118 (both overloads: for int, moving is copying)
InsertOp(st, pos, value, ok, impl) ==
    LET old_size == GetSize(st.a)
        index == Distance(Begin(st.a), pos)
        s1 == GrowIfNeed(st, ok)
        s2 == SetSize(s1, old_size + 1)
        new_pos == [blk |-> s2.a.memory, off |-> index]
        s3 == StdCopy(s2, new_pos.off, End(s2.a).off,
                      NextPtr(Begin(s2.a), index + 1).off, impl)
        s4 == Put(s3, index, value)
    IN  [st |-> s4, ret |-> new_pos]

\* simple_vector.h:121-125
PopBackOp(st) ==
    IF ~IsEmpty(st.a) THEN SetSize(st, GetSize(st.a) - 1) ELSE st

\* Erase with the shift starting at pos instead of pos + 1
EraseOpShiftFromPos(st, pos) ==
    LET index == Distance(Begin(st.a), pos)
        it_start == [blk |-> st.a.memory, off |-> index]
        s1 == CopyForward(st, it_start.off, End(st.a).off,
                          NextPtr(Begin(st.a), index).off)
        s2 == SetSize(s1, GetSize(s1.a) - 1)
    IN  [st  |-> s2,
         ret |-> IF index >= GetSize(s2.a) THEN End(s2.a)
                 ELSE [blk |-> s2.a.memory, off |-> index]]

\* simple_vector.h:128-136
EraseOp(st, pos) ==
    LET index == Distance(Begin(st.a), pos)
        it_start == [blk |-> st.a.memory, off |-> index + 1]
        s1 == CopyForward(st, it_start.off, End(st.a).off,
                          NextPtr(Begin(st.a), index).off)
        s2 == SetSize(s1, GetSize(s1.a) - 1)
    IN  [st  |-> s2,
         ret |-> IF index >= GetSize(s2.a) THEN End(s2.a)
                 ELSE [blk |-> s2.a.memory, off |-> index]]

\* simple_vector.h:176-178
ClearOp(st) == SetSize(st, 0)

\* simple_vector.h:40-46: the fill loop over [begin(), end())
RECURSIVE FillFrom(_, _, _)
FillFrom(st, k, value) ==
    IF k < End(st.a).off THEN FillFrom(Put(st, k, value), k + 1, value) ELSE st

\* simple_vector.h:49-57: array_[i++] = v for every v of the list
RECURSIVE StoreList(_, _, _)
StoreList(st, init, i) ==
    IF i < Len(init) THEN StoreList(Put(st, i, init[i + 1]), init, i + 1) ELSE st

\* array_ptr.h:76-80
ArrSwap(this, other) == [this |-> other, other |-> this]

\* array_ptr.h:51-53: the members start from their default initialisers
ArrMoveCtor(other) == ArrSwap(EmptyArr, other)

\* move assignment written as a plain swap with rhs
ArrMoveAssignSwaps(this, rhs, h) ==
    LET r == ArrSwap(this, rhs)
    IN  [this |-> r.this, other |-> r.other, h |-> h]

\* array_ptr.h:63-74, for &rhs != this
ArrMoveAssign(this, rhs, h) ==
    LET r == ArrSwap(EmptyArr, rhs)
    IN  [this |-> r.this, other |-> r.other, h |-> Delete(h, this.memory)]

\* ------------------------------------------------------------------ the calls
\* the elements of a vector as GetSize() and operator[] show them
Elems(a, h) == [k \in 1..a.size |-> Get(Mk(a, h), k - 1)]

\* size_ <= capacity_ and capacity_ is the length of the owned array
WellFormed(a, h) == a.size <= a.capacity /\ a.capacity = BlockLen(a, h)

NoLog == [on |-> FALSE, xs |-> <<>>]
NoMove == [on |-> FALSE, src |-> "S", dst |-> "S", snap |-> EmptyArr,
           elems |-> <<>>, log |-> <<>>, failed |-> FALSE]

\* A call on v other than its destruction, Clear() or an assignment to it is
\* made on a live vector whose size_ does not exceed its array: on any other
\* vector every element access of the call is outside the array.
Valid(v) == alive[v] /\ WellFormed(vec[v], heap)

\* the record of a call: pre and s are the ArrayPtr and the elements the call
\* found (kept for the calls whose result is stated in terms of them)
Call(op, v, w, i, x, pre, s, st, ret) ==
    [op |-> op, v |-> v, w |-> w, i |-> i, x |-> x, pre |-> pre, s |-> s,
     alloc |-> st.alloc, oob |-> st.oob, ret |-> ret,
     undo |-> FALSE, orig |-> <<>>, dirty |-> FALSE]

Commit(v, st, rec, log, mv) ==
    /\ heap' = st.h
    /\ vec' = [vec EXCEPT ![v] = st.a]
    /\ alive' = [alive EXCEPT ![v] = TRUE]
    /\ last' = rec
    /\ plog' = [plog EXCEPT ![v] = log]
    /\ mvd' = mv

Init ==
    /\ vec = [v \in Vecs |-> EmptyArr]
    /\ alive = [v \in Vecs |-> v = "S"]
    /\ heap = [b \in Blocks |-> FreeBlock]
    /\ last = Call("Init", "S", "S", 0, Zero, EmptyArr, <<>>, Mk(EmptyArr, <<>>), NullPtr)
    /\ plog = [v \in Vecs |-> [on |-> v = "S", xs |-> <<>>]]
    /\ mvd = NoMove

\* simple_vector.h:31
CtorDefault(v) ==
    /\ ~alive[v]
    /\ Commit(v, Mk(EmptyArr, heap),
              Call("CtorDefault", v, v, 0, Zero, EmptyArr, <<>>, Mk(EmptyArr, heap), NullPtr),
              [on |-> TRUE, xs |-> <<>>], NoMove)

\* simple_vector.h:35-37
CtorSized(v, size, ok) ==
    /\ ~alive[v]
    /\ LET st == ArrayPtrSized(heap, size, ok)
       IN  Commit(v, st, Call("CtorSized", v, v, size, Zero, EmptyArr, <<>>, st, NullPtr),
                  NoLog, NoMove)

\* simple_vector.h:40-46
CtorFill(v, size, value, ok) ==
    /\ ~alive[v]
    /\ LET s0 == ArrayPtrSized(heap, size, ok)
           st == FillFrom(s0, Begin(s0.a).off, value)
       IN  Commit(v, st, Call("CtorFill", v, v, size, value, EmptyArr, <<>>, st, NullPtr),
                  NoLog, NoMove)

\* simple_vector.h:49-57
CtorList(v, init, ok) ==
    /\ ~alive[v]
    /\ LET st == StoreList(ArrayPtrSized(heap, Len(init), ok), init, 0)
       IN  Commit(v, st, Call("CtorList", v, v, Len(init), Zero, EmptyArr, <<>>, st, NullPtr),
                  NoLog, NoMove)

\* simple_vector.h:60-62 with Reserve(capacity_to_reserve), lines 11-20 and 271-273
CtorReserve(v, capacity_to_reserve, ok) ==
    /\ ~alive[v]
    /\ LET st == ArrayPtrReserved(heap, 0, capacity_to_reserve, ok)
       IN  Commit(v, st,
                  Call("CtorReserve", v, v, capacity_to_reserve, Zero, EmptyArr, <<>>, st, NullPtr),
                  NoLog, NoMove)

\* simple_vector.h:64 over array_ptr.h:42-49.  A throwing new leaves no object.
CtorCopy(v, w, ok) ==
    /\ ~alive[v] /\ Valid(w)
    /\ LET st == ArrayPtrCopy(vec[w], heap, ok)
           rec == Call("CtorCopy", v, w, 0, Zero, EmptyArr, <<>>, st, NullPtr)
       IN  IF st.alloc = "fail"
           THEN /\ last' = rec
                /\ mvd' = NoMove
                /\ plog' = [plog EXCEPT ![w] = NoLog]
                /\ UNCHANGED <<vec, alive, heap>>
           ELSE /\ heap' = st.h
                /\ vec' = [vec EXCEPT ![v] = st.a]
                /\ alive' = [alive EXCEPT ![v] = TRUE]
                /\ last' = rec
                /\ plog' = [plog EXCEPT ![v] = NoLog, ![w] = NoLog]
                /\ mvd' = NoMove

\* simple_vector.h:67 over array_ptr.h:51-53
CtorMove(v, w) ==
    /\ ~alive[v] /\ Valid(w)
    /\ LET r == ArrMoveCtor(vec[w])
       IN  /\ vec' = [vec EXCEPT ![v] = r.this, ![w] = r.other]
           /\ alive' = [alive EXCEPT ![v] = TRUE]
           /\ last' = Call("CtorMove", v, w, 0, Zero, vec[w], Elems(vec[w], heap),
                           Mk(EmptyArr, heap), NullPtr)
           /\ plog' = [plog EXCEPT ![v] = NoLog, ![w] = NoLog]
           /\ mvd' = [on |-> TRUE, src |-> w, dst |-> v, snap |-> vec[w],
                      elems |-> Elems(vec[w], heap), log |-> <<>>,
                           failed |-> FALSE]
           /\ UNCHANGED heap

\* simple_vector.h:32 over array_ptr.h:82-84
Dtor(v) ==
    /\ alive[v]
    /\ heap' = Delete(heap, vec[v].memory)
    /\ vec' = [vec EXCEPT ![v] = EmptyArr]
    /\ alive' = [alive EXCEPT ![v] = FALSE]
    /\ last' = Call("Dtor", v, v, 0, Zero, EmptyArr, <<>>, Mk(EmptyArr, heap), NullPtr)
    /\ plog' = [plog EXCEPT ![v] = NoLog]
    /\ mvd' = NoMove

\* simple_vector.h:76-89
PushBack(v, item, ok) ==
    /\ Valid(v) /\ GetSize(vec[v]) < MaxLen
    /\ LET st == PushBackOp(Mk(vec[v], heap), item, ok)
       IN  Commit(v, st,
                  Call("PushBack", v, v, 0, item, vec[v], Elems(vec[v], heap), st, NullPtr),
                  IF plog[v].on /\ st.alloc # "fail"
                  THEN [on |-> TRUE, xs |-> Append(plog[v].xs, item)] ELSE NoLog,
                  IF mvd.on /\ mvd.src = v
                  THEN [mvd EXCEPT !.log = Append(@, item),
                                   !.failed = @ \/ st.alloc = "fail"]
                  ELSE NoMove)

\* simple_vector.h:95-118, called with pos = begin() + i, a position of
\* [begin(), end()]
Insert(v, i, value, ok, impl) ==
    /\ Valid(v) /\ GetSize(vec[v]) < MaxLen
    /\ i <= GetSize(vec[v])
    /\ LET r == InsertOp(Mk(vec[v], heap), NextPtr(Begin(vec[v]), i), value, ok, impl)
       IN  Commit(v, r.st,
                  Call("Insert", v, v, i, value, vec[v], Elems(vec[v], heap), r.st, r.ret),
                  NoLog, NoMove)

\* simple_vector.h:121-125
PopBack(v) ==
    /\ Valid(v)
    /\ LET st == PopBackOp(Mk(vec[v], heap))
       IN  Commit(v, st,
                  Call("PopBack", v, v, 0, Zero, vec[v], <<>>, st, NullPtr),
                  NoLog, NoMove)

\* simple_vector.h:128-136, called with pos = begin() + i, a position of
\* [begin(), end())
Erase(v, i) ==
    /\ Valid(v)
    /\ i < GetSize(vec[v])
    /\ LET pos == NextPtr(Begin(vec[v]), i)
           r == EraseOp(Mk(vec[v], heap), pos)
           \* is this Erase(it) for the it the Insert just before returned
           undo == /\ last.op = "Insert" /\ last.v = v /\ last.ret = pos
                   /\ last.alloc # "fail"
           rec == Call("Erase", v, v, i, Zero, vec[v], Elems(vec[v], heap), r.st, r.ret)
       IN  Commit(v, r.st,
                  [rec EXCEPT !.undo = undo, !.orig = IF undo THEN last.s ELSE <<>>],
                  NoLog, NoMove)

\* simple_vector.h:176-178
Clear(v) ==
    /\ alive[v]
    /\ LET st == ClearOp(Mk(vec[v], heap))
       IN  Commit(v, st,
                  Call("Clear", v, v, 0, Zero, vec[v], <<>>, st, NullPtr),
                  NoLog, NoMove)

\* simple_vector.h:182-184
ResizeCall(v, new_size, ok) ==
    /\ Valid(v)
    /\ LET st == Resize(Mk(vec[v], heap), new_size, ok)
           \* did a slot the call brings back into [0, size) hold a non-zero value
           dirty == \E k \in GetSize(vec[v])..(new_size - 1) :
                        k < BlockLen(vec[v], heap) /\ Get(Mk(vec[v], heap), k) # Zero
           rec == Call("Resize", v, v, new_size, Zero, vec[v], Elems(vec[v], heap), st, NullPtr)
       IN  Commit(v, st, [rec EXCEPT !.dirty = dirty], NoLog, NoMove)

\* simple_vector.h:187-189
ReserveCall(v, new_capacity, ok) ==
    /\ Valid(v)
    /\ LET st == Reserve(Mk(vec[v], heap), new_capacity, ok)
       IN  Commit(v, st,
                  Call("Reserve", v, v, new_capacity, Zero, vec[v], Elems(vec[v], heap), st, NullPtr),
                  NoLog, NoMove)

\* simple_vector.h:65 over array_ptr.h:55-61: v = w
CopyAssign(v, w, ok) ==
    /\ alive[v] /\ Valid(w)
    /\ mvd' = NoMove
    /\ plog' = [plog EXCEPT ![v] = NoLog, ![w] = NoLog]
    /\ UNCHANGED alive
    /\ IF v = w
       THEN /\ last' = Call("CopyAssign", v, w, 0, Zero, vec[v], Elems(vec[v], heap),
                            Mk(vec[v], heap), NullPtr)
            /\ UNCHANGED <<vec, heap>>
       ELSE LET tmp == ArrayPtrCopy(vec[w], heap, ok)
                r == ArrSwap(vec[v], tmp.a)
            IN  /\ last' = Call("CopyAssign", v, w, 0, Zero, EmptyArr, <<>>, tmp, NullPtr)
                /\ IF tmp.alloc = "fail"
                   THEN UNCHANGED <<vec, heap>>
                   ELSE /\ heap' = Delete(tmp.h, r.other.memory)
                        /\ vec' = [vec EXCEPT ![v] = r.this]

\* simple_vector.h:68 over array_ptr.h:63-74: v = std::move(w)
MoveAssign(v, w) ==
    /\ alive[v] /\ Valid(w)
    /\ last' = Call("MoveAssign", v, w, 0, Zero, vec[w], Elems(vec[w], heap),
                    Mk(vec[w], heap), NullPtr)
    /\ plog' = [plog EXCEPT ![v] = NoLog, ![w] = NoLog]
    /\ UNCHANGED alive
    /\ IF v = w
       THEN /\ mvd' = NoMove
            /\ UNCHANGED <<vec, heap>>
       ELSE LET r == ArrMoveAssign(vec[v], vec[w], heap)
            IN  /\ vec' = [vec EXCEPT ![v] = r.this, ![w] = r.other]
                /\ heap' = r.h
                /\ mvd' = [on |-> TRUE, src |-> w, dst |-> v, snap |-> vec[w],
                           elems |-> Elems(vec[w], heap), log |-> <<>>,
                           failed |-> FALSE]

\* simple_vector.h:70-72: std::swap(array_, other.array_) is a move
\* construction of a temporary and two move assignments
Swap(v, w) ==
    /\ Valid(v) /\ Valid(w) /\ v # w
    /\ LET t1 == ArrMoveCtor(vec[v])                    \* tmp(std::move(a))
           t2 == ArrMoveAssign(t1.other, vec[w], heap)  \* a = std::move(b)
           t3 == ArrMoveAssign(t2.other, t1.this, t2.h) \* b = std::move(tmp)
       IN  /\ vec' = [vec EXCEPT ![v] = t2.this, ![w] = t3.this]
           /\ heap' = Delete(t3.h, t3.other.memory)     \* ~tmp
    /\ last' = Call("Swap", v, w, 0, Zero, EmptyArr, <<>>,
                    Mk(EmptyArr, heap), NullPtr)
    /\ plog' = [v2 \in Vecs |-> NoLog]
    /\ mvd' = NoMove
    /\ UNCHANGED alive

Lists == UNION {[1..n -> Inputs] : n \in 0..MaxLen}

\* the calls on one vector
Calls(v) ==
    \/ CtorDefault(v)
    \/ \E n \in 0..MaxLen, ok \in BOOLEAN : CtorSized(v, n, ok)
    \/ \E n \in 0..MaxLen, x \in Inputs, ok \in BOOLEAN : CtorFill(v, n, x, ok)
    \/ \E init \in Lists, ok \in BOOLEAN : CtorList(v, init, ok)
    \/ \E n \in 0..MaxLen, ok \in BOOLEAN : CtorReserve(v, n, ok)
    \/ Dtor(v)
    \/ \E x \in Inputs, ok \in BOOLEAN : PushBack(v, x, ok)
    \/ \E i \in 0..MaxLen, x \in Inputs, ok \in BOOLEAN, impl \in CopyImpls :
           Insert(v, i, x, ok, impl)
    \/ PopBack(v)
    \/ \E i \in 0..MaxLen : Erase(v, i)
    \/ Clear(v)
    \/ \E n \in 0..MaxLen, ok \in BOOLEAN : ResizeCall(v, n, ok)
    \/ \E n \in 0..MaxLen, ok \in BOOLEAN : ReserveCall(v, n, ok)
    \/ \E ok \in BOOLEAN : CopyAssign(v, v, ok)
    \/ MoveAssign(v, v)

\* a program with the one vector S
Next == Calls("S")

Spec == Init /\ [][Next]_vars

\* a program with the two vectors S and T, built by their constructors and
\* PushBack, and copied, moved and swapped with one another
InitPair ==
    /\ vec = [v \in Vecs |-> EmptyArr]
    /\ alive = [v \in Vecs |-> TRUE]
    /\ heap = [b \in Blocks |-> FreeBlock]
    /\ last = Call("Init", "S", "S", 0, Zero, EmptyArr, <<>>, Mk(EmptyArr, <<>>), NullPtr)
    /\ plog = [v \in Vecs |-> [on |-> TRUE, xs |-> <<>>]]
    /\ mvd = NoMove

NextPair ==
    \/ \E v \in Vecs : CtorDefault(v)
    \/ \E v \in Vecs, init \in Lists, ok \in BOOLEAN : CtorList(v, init, ok)
    \/ \E v \in Vecs : Dtor(v)
    \/ \E v \in Vecs, x \in Inputs, ok \in BOOLEAN : PushBack(v, x, ok)
    \/ \E v \in Vecs, w \in Vecs, ok \in BOOLEAN : CtorCopy(v, w, ok)
    \/ \E v \in Vecs, w \in Vecs : CtorMove(v, w)
    \/ \E v \in Vecs, w \in Vecs, ok \in BOOLEAN : CopyAssign(v, w, ok)
    \/ \E v \in Vecs, w \in Vecs : MoveAssign(v, w)
    \/ \E v \in Vecs, w \in Vecs : Swap(v, w)

SpecPair == InitPair /\ [][NextPair]_vars

\* ------------------------------------------------------------------ typing
TypeOK ==
    /\ \A b \in Blocks : \A k \in 1..Len(heap[b].cells) : heap[b].cells[k] \in Vals \cup {Indet}
    /\ \A v \in Vecs : vec[v].memory \in Blocks \cup {NULL}
    /\ \A v \in Vecs : vec[v].memory # NULL => heap[vec[v].memory].used
    /\ \A v \in Vecs : vec[v].capacity = BlockLen(vec[v], heap)
    /\ vec["S"].memory # NULL => vec["S"].memory # vec["T"].memory

\* ------------------------------------------------------------------ claims
\* the vector of the last call, and its elements now
Cur == vec[last.v]
CurElems == Elems(vec[last.v], heap)
\* the element a pointer refers to
Deref(p) == heap[p.blk].cells[p.off + 1]

\* C1: in every reachable state of a SimpleVector, GetSize() <= GetCapacity(),
\* the allocations of ArrayPtr::Reserve succeeding or failing.
SizeWithinCapacity ==
    \A v \in Vecs : alive[v] => GetSize(vec[v]) <= GetCapacity(vec[v])

\* C2: after PushBack(x1) ... PushBack(xN) on a default-constructed vector, all
\* allocations succeeding, GetSize() = N and element i is x(i+1).
AppendLaw ==
    \A v \in Vecs : alive[v] /\ plog[v].on =>
        /\ GetSize(vec[v]) = Len(plog[v].xs)
        /\ Elems(vec[v], heap) = plog[v].xs

AppendLawWitness ==
    /\ plog["S"].on /\ Len(plog["S"].xs) = 3 /\ plog["S"].xs[1] # plog["S"].xs[2]
    /\ GetCapacity(vec["S"]) = 4 /\ last.op = "PushBack" /\ last.alloc = "ok"

\* the capacity after n PushBack calls on a default-constructed vector: 0, 1, 2, 4, 4, 8, ...
RECURSIVE DoubledUpTo(_, _)
DoubledUpTo(c, n) == IF c >= n THEN c ELSE DoubledUpTo(2 * c, n)
CapacityAfterPushes(n) == IF n = 0 THEN 0 ELSE DoubledUpTo(1, n)

\* C3: PushBack and Insert, the allocation succeeding, take capacity 0 to 1, a
\* full capacity c > 0 to 2c and leave the capacity of a vector that is not
\* full; the capacities seen while pushing onto an empty vector are 1, 2, 4, ...
GrowthPolicy ==
    /\ last.op \in {"PushBack", "Insert"} /\ last.alloc # "fail" =>
          LET n == last.pre.size
              c == last.pre.capacity
          IN  /\ n = c /\ c = 0 => GetCapacity(Cur) = 1
              /\ n = c /\ c > 0 => GetCapacity(Cur) = 2 * c
              /\ n < c => GetCapacity(Cur) = c
              /\ GetCapacity(Cur) >= c
    /\ \A v \in Vecs : alive[v] /\ plog[v].on =>
          GetCapacity(vec[v]) = CapacityAfterPushes(Len(plog[v].xs))

GrowthPolicyWitness ==
    /\ last.op = "Insert" /\ last.alloc = "ok"
    /\ last.pre.size = 2 /\ last.pre.capacity = 2 /\ GetCapacity(Cur) = 4

\* s with v inserted before index i (0-based)
InsertAt(s, i, v) == [k \in 1..(Len(s) + 1) |->
                         IF k <= i THEN s[k] ELSE IF k = i + 1 THEN v ELSE s[k - 1]]
\* s without the element at index i (0-based)
RemoveAt(s, i) == [k \in 1..(Len(s) - 1) |-> IF k <= i THEN s[k] ELSE s[k + 1]]

\* C4: Insert(begin() + i, v) on content s of size n, the shift done element by
\* element from the low index up, leaves size n+1 and content
\* s[0..i) ++ [v] ++ s[i..n), and returns an iterator to index i, which holds v.
InsertResult ==
    last.op = "Insert" /\ last.alloc # "fail" =>
        /\ GetSize(Cur) = Len(last.s) + 1
        /\ CurElems = InsertAt(last.s, last.i, last.x)
        /\ last.ret = [blk |-> Cur.memory, off |-> last.i]
        /\ Deref(last.ret) = last.x

\* C5: Erase(begin() + i) on content s of size n leaves size n-1, content
\* s[0..i) ++ s[i+1..n) and the capacity; it returns an iterator to index i
\* (the element formerly at i+1) when i < n-1, and end() when i = n-1.
EraseResult ==
    last.op = "Erase" =>
        LET n == Len(last.s)
        IN  /\ GetSize(Cur) = n - 1
            /\ CurElems = RemoveAt(last.s, last.i)
            /\ GetCapacity(Cur) = last.pre.capacity
            /\ last.i < n - 1 => /\ last.ret = [blk |-> Cur.memory, off |-> last.i]
                                 /\ Deref(last.ret) = last.s[last.i + 2]
            /\ last.i = n - 1 => last.ret = End(Cur)
            /\ n = 1 => IsEmpty(Cur) /\ last.ret = NullPtr

EraseResultWitness ==
    /\ last.op = "Erase" /\ Len(last.s) = 3 /\ last.i = 0
    /\ last.s[1] # last.s[2] /\ last.s[2] # last.s[3]

\* C6: it = Insert(begin() + i, v) followed by Erase(it) leaves the size and
\* the content the vector had before the Insert.
InsertEraseInverse ==
    last.op = "Erase" /\ last.undo =>
        /\ GetSize(Cur) = Len(last.orig)
        /\ CurElems = last.orig

\* C7: Resize(newSize) on size n, capacity c (int elements, the allocation
\* succeeding) gives size newSize, keeps the elements below min(n, newSize),
\* makes every element of [n, newSize) zero, and takes the capacity to exactly
\* newSize when newSize > c, leaving it otherwise.
ResizeResult ==
    last.op = "Resize" /\ last.alloc # "fail" =>
        LET n == last.pre.size
            c == last.pre.capacity
            newSize == last.i
        IN  /\ GetSize(Cur) = newSize
            /\ \A k \in 1..newSize : CurElems[k] = IF k <= n THEN last.s[k] ELSE Zero
            /\ GetCapacity(Cur) = IF newSize > c THEN newSize ELSE c

ResizeResultWitness ==
    /\ last.op = "Resize" /\ last.dirty /\ last.alloc = "none"
    /\ last.pre.size = 1 /\ last.i = 3 /\ last.s[1] # Zero

\* C8: Reserve(newCapacity) with newCapacity > capacity whose allocation fails
\* returns normally and leaves size, capacity, the owned block and the
\* elements of [0, size) as they were.
ReserveFailureAtomic ==
    last.op = "Reserve" /\ last.alloc = "fail" =>
        /\ Cur = last.pre
        /\ CurElems = last.s
        /\ Cur.memory # NULL => heap[Cur.memory].used
        /\ ~last.oob

ReserveFailureWitness ==
    /\ last.op = "Reserve" /\ last.alloc = "fail"
    /\ last.pre.size = 2 /\ last.i > last.pre.capacity /\ last.s[1] # last.s[2]

\* C10: every slot a public operation reads or writes has an index below the
\* capacity of the block at that moment (stated here for the calls whose
\* allocation, if any, succeeds).
NoAccessOutsideArray ==
    last.alloc # "fail" => ~last.oob

\* what C9 says of the state after a move and the PushBack calls on the source
MovedAndPushed ==
    LET S == vec[mvd.src]
        T == vec[mvd.dst]
    IN  /\ T = mvd.snap
        /\ Elems(T, heap) = mvd.elems
        /\ mvd.snap.memory # NULL =>
              S.memory # mvd.snap.memory /\ heap[mvd.snap.memory].used
        /\ mvd.log = <<>> => GetSize(S) = 0 /\ GetCapacity(S) = 0
        /\ GetSize(S) = Len(mvd.log)
        /\ Elems(S, heap) = mvd.log

\* C9: after T = move(S) (assignment or construction, S and T distinct) T has
\* the size, capacity, block and elements S had, S has size 0 and capacity 0
\* and does not own that block, and any PushBack calls on S give S exactly the
\* pushed elements and leave T alone; moving a vector to itself changes nothing.
MoveLeavesSourceEmpty ==
    /\ mvd.on => MovedAndPushed
    /\ last.op = "MoveAssign" /\ last.v = last.w =>
          Cur = last.pre /\ CurElems = last.s

\* The same holds as long as every allocation of these PushBack calls succeeds.
MoveThenPushAllocated ==
    /\ mvd.on /\ ~mvd.failed => MovedAndPushed
    /\ last.op = "MoveAssign" /\ last.v = last.w =>
          Cur = last.pre /\ CurElems = last.s

MoveThenPushWitness ==
    /\ mvd.on /\ ~mvd.failed /\ Len(mvd.log) = 2 /\ Len(mvd.elems) = 2
    /\ mvd.log # mvd.elems /\ last.op = "PushBack"

=============================================================================
